---- MODULE Spec2Model ----
(***************************************************************************)
(* The content-generation pipeline of ai-content-generator-backend:        *)
(* the Content store (contentService.ts), the BullMQ queue                 *)
(* (contentQueue.ts), the worker processor (worker.ts), the Redis          *)
(* job-updates channel and the status poll (contentController.ts).         *)
(* Every await of a handler is a point where other processes may run, so   *)
(* a handler is one action per awaited operation.                          *)
(***************************************************************************)
EXTENDS Integers, Sequences, FiniteSets, Bags, TLC

(* ------------------------------ bounds -------------------------------- *)
\* Number of Content records ever created (ids 1..MaxContents).
MaxContents == 1
\* Number of free clock ticks (of TickMs) besides the jumps to a timer.
MaxTicks == 1
\* Jobs in the worker-pool specification.
MaxPoolJobs == 6
\* Seconds the clock of the authentication specification may reach.
MaxAuthSec == 2
\* Malformed texts another client publishes on the channel.
MaxMalformed == 1

(* ------------------------- program constants -------------------------- *)
\* contentQueue.ts: defaultJobOptions.attempts
attempts == 3
\* contentQueue.ts: defaultJobOptions.backoff.delay
backoffDelay == 2000
\* contentQueue.ts: addContentGenerationJob, delay
jobDelay == 60000
\* A free clock tick: half the shortest timer, in ms.
TickMs == backoffDelay \div 2

(* ------------------------------ values -------------------------------- *)
NULL == "<null>"
Users == {"u1", "u2"}
ContentIds == 1..MaxContents
\* One id more than is ever created: a job id for which nothing exists.
ProbeIds == 1..(MaxContents + 1)
\* Texts the generation collaborator may return (never empty: aiService
\* throws on an empty text).
GenTexts == {"G1", "G2"}
\* Values the update endpoint accepts for content: z.string().optional()
\* accepts the empty string.
EditTexts == {"", "E"}

\* Mutant of JobIdOf: a job id that does not depend on the content id.
JobIdOf_constant(cid) == <<"content-", 0>>

\* `content-${contentId}`: the job id is the prefix followed by the id.
JobIdOf(cid) == <<"content-", cid>>

\* JavaScript's !v for a string | null value.
Falsy(v) == v = NULL \/ v = ""

\* A null jobId; job ids are sequences.
NoJobId == <<>>
NoRec == [exists |-> FALSE]
NoJob == [exists |-> FALSE]
NoResp == [status |-> 0]
\* socket.io connections.
Conns == {"s1"}
\* Worker options: concurrency and limiter {max, duration}.
concurrency == 5
limiterMax == 10
limiterDuration == 60000
\* The registered user, the concurrent refresh requests, and a refresh
\* token: jwt.sign of {userId, email} with iat in seconds, so that two tokens
\* of a user signed in the same second are the same string.
AuthUser == "u1"
RefreshRequests == {"r1", "r2"}
NoToken == <<>>
GenerateRefreshToken(user, iat) == <<user, iat>>

VARIABLES
  now,        \* wall clock, ms
  ticks,      \* free ticks taken
  nextId,     \* next Content _id
  store,      \* Content collection: id -> document
  jobs,       \* queue: content id n -> job with id JobIdOf(n)
  crPc, crId, crUser,            \* createContentHandler in flight
  wpc, wgen, wexisting, werr,    \* worker processor, per job
  published,  \* messages published on job-updates, in order
  pollPc, pollReq, pollQ, resp,  \* getJobStatusHandler in flight, its response
  pollDoc,    \* history: the document in the store when resp was built
  rbPc, rbReq, rbDoc, rbResp,    \* rollbackContentHandler in flight
  rooms, connected, gwHandled, received,  \* the socket.io gateway
  deliveredIdx,  \* history: index in published of each received message
  joined,     \* history: per connection and room, the moment of the join
  submitted,  \* history: submission time per job
  started,    \* history: dispatch times per job
  generated,  \* history: number of results the collaborator returned, per job
  failedAt,   \* history: times at which attempts failed, per job
  backoffs,   \* history: backoff delays applied, per job
  writes,     \* history: outcome writes of the worker, per job
  pnow,       \* worker pool: the time, in ms
  pticks,     \* worker pool: number of steps of time short of a timer
  pjobs,      \* worker pool: the bag of the queue's jobs
  limCount,   \* worker pool: the rate limiter's counter key
  limExpiry,  \* worker pool: when the counter key expires
  recent,     \* history: dispatch times of the last limiterDuration ms
  asec,       \* auth: the time, in seconds
  userToken,  \* auth: the user's stored refreshToken, or NoToken
  refPc,      \* auth: position of each refresh request
  refTok,     \* auth: the token each refresh request presented
  refNew,     \* auth: the token each refresh request generated
  refLate,    \* history: the request presented a revoked token
  loPc,       \* auth: position of the logout request
  liPc,       \* auth: position of the login request
  liTok,      \* auth: the token the login request generated
  signed,     \* history: refresh tokens generated so far
  handed,     \* history: refresh tokens returned in a response so far
  spent,      \* history: tokens a refresh redeemed or a login replaced
  loggedOut,  \* history: a logout succeeded and no login since
  revoked     \* history: tokens generated before that logout

vars == <<now, ticks, nextId, store, jobs, crPc, crId, crUser,
          wpc, wgen, wexisting, werr, published,
          pollPc, pollReq, pollQ, resp, pollDoc, rbPc, rbReq, rbDoc, rbResp,
          rooms, connected, gwHandled,
          received, deliveredIdx, joined, submitted, started, generated, failedAt, backoffs, writes,
          pnow, pticks, pjobs, limCount, limExpiry, recent,
          asec, userToken, refPc, refTok, refNew, refLate, loPc, liPc, liTok,
          signed, handed, spent, loggedOut, revoked>>

storeVars == <<nextId, store>>
createVars == <<crPc, crId, crUser>>
workerVars == <<wpc, wgen, wexisting, werr>>
pollVars == <<pollPc, pollReq, pollQ, resp, pollDoc>>
rbVars == <<rbPc, rbReq, rbDoc, rbResp>>
gwVars == <<rooms, connected, gwHandled, received, deliveredIdx, joined>>
histVars == <<submitted, started, generated, failedAt, backoffs, writes>>
clockVars == <<now, ticks>>
poolVars == <<pnow, pticks, pjobs, limCount, limExpiry, recent>>
authVars == <<asec, userToken, refPc, refTok, refNew, refLate, loPc, liPc,
              liTok, signed, handed, spent, loggedOut, revoked>>

Init ==
  /\ now = 0 /\ ticks = 0
  /\ nextId = 1
  /\ store = [c \in ContentIds |-> NoRec]
  /\ jobs = [c \in ContentIds |-> NoJob]
  /\ crPc = "idle" /\ crId = 0 /\ crUser = NULL
  /\ wpc = [c \in ContentIds |-> "idle"]
  /\ wgen = [c \in ContentIds |-> NULL]
  /\ wexisting = [c \in ContentIds |-> FALSE]
  /\ werr = [c \in ContentIds |-> NULL]
  /\ published = <<>>
  /\ pollPc = "idle" /\ pollReq = [user |-> NULL, jobId |-> NoJobId]
  /\ pollQ = NoJob /\ resp = NoResp /\ pollDoc = NoRec
  /\ rbPc = "idle" /\ rbReq = [user |-> NULL, id |-> 0]
  /\ rbDoc = NoRec /\ rbResp = NoResp
  /\ rooms = [s \in Conns |-> {}]
  /\ connected = [s \in Conns |-> TRUE]
  /\ gwHandled = 0
  /\ received = [s \in Conns |-> <<>>]
  /\ deliveredIdx = [s \in Conns |-> <<>>]
  /\ joined = [s \in Conns |-> {}]
  /\ submitted = [c \in ContentIds |-> <<>>]
  /\ started = [c \in ContentIds |-> <<>>]
  /\ generated = [c \in ContentIds |-> 0]
  /\ failedAt = [c \in ContentIds |-> <<>>]
  /\ backoffs = [c \in ContentIds |-> <<>>]
  /\ writes = [c \in ContentIds |-> <<>>]
  /\ pnow = 0 /\ pticks = 0 /\ pjobs = EmptyBag
  /\ limCount = 0 /\ limExpiry = 0 /\ recent = <<>>
  /\ asec = 0 /\ userToken = GenerateRefreshToken(AuthUser, 0)
  /\ refPc = [r \in RefreshRequests |-> "idle"]
  /\ refTok = [r \in RefreshRequests |-> NoToken]
  /\ refNew = [r \in RefreshRequests |-> NoToken]
  /\ refLate = [r \in RefreshRequests |-> FALSE]
  /\ loPc = "idle" /\ liPc = "idle" /\ liTok = NoToken
  /\ signed = {GenerateRefreshToken(AuthUser, 0)}
  /\ handed = {GenerateRefreshToken(AuthUser, 0)}
  /\ spent = {}
  /\ loggedOut = FALSE /\ revoked = {}

(* --------------------------- Content store ---------------------------- *)
\* Content.findOne({ jobId }): the ids of the documents carrying the job id.
FindByJobId(jid) ==
  {c \in ContentIds : store[c].exists /\ store[c].jobId = jid}

\* Mutant of FindOwned: the query leaves userId out.
FindOwned_anyUser(cid, user) ==
  {c \in ContentIds : c = cid /\ store[c].exists}

\* Content.findOne({ _id, userId }).
FindOwned(cid, user) ==
  {c \in ContentIds : c = cid /\ store[c].exists /\ store[c].userId = user}

\* Mutant of NewContent: jobStatus is left to a default of pending.
NewContent_pending(user) ==
  [exists |-> TRUE, userId |-> user, generatedContent |-> NULL,
   content |-> NULL, jobId |-> NoJobId, jobStatus |-> "pending"]

\* new Content({userId, topic, contentType, prompt, jobStatus: QUEUED}) with
\* the schema defaults generatedContent = content = jobId = null.
NewContent(user) ==
  [exists |-> TRUE, userId |-> user, generatedContent |-> NULL,
   content |-> NULL, jobId |-> NoJobId, jobStatus |-> "queued"]

(* ------------------- createContentHandler (POST /) -------------------- *)
\* createContent: content.save() of a new document.
CreateContent(user) ==
  /\ crPc = "idle"
  /\ nextId <= MaxContents
  /\ store' = [store EXCEPT ![nextId] = NewContent(user)]
  /\ nextId' = nextId + 1
  /\ crPc' = "created" /\ crId' = nextId /\ crUser' = user
  /\ UNCHANGED <<poolVars, authVars, gwVars, rbVars, clockVars, jobs, workerVars, published, pollVars, histVars>>

\* contentQueue.add(name, data, {delay: 60000, jobId: `content-${contentId}`})
\* under defaultJobOptions; an id already in the queue is not added again.
\* Mutant of NewJob: the job is added without the delay option.
NewJob_noDelay(cid, user, t) ==
  [exists |-> TRUE, id |-> JobIdOf(cid), state |-> "delayed",
   readyAt |-> t, attemptsMade |-> 0,
   data |-> [contentId |-> cid, userId |-> user],
   returnvalue |-> NULL, failedReason |-> NULL]

NewJob(cid, user, t) ==
  [exists |-> TRUE, id |-> JobIdOf(cid), state |-> "delayed",
   readyAt |-> t + jobDelay, attemptsMade |-> 0,
   data |-> [contentId |-> cid, userId |-> user],
   returnvalue |-> NULL, failedReason |-> NULL]

CreateAddJob ==
  /\ crPc = "created"
  /\ jobs' = IF jobs[crId].exists THEN jobs
             ELSE [jobs EXCEPT ![crId] = NewJob(crId, crUser, now)]
  /\ submitted' = IF jobs[crId].exists THEN submitted
                  ELSE [submitted EXCEPT ![crId] = Append(@, now)]
  /\ crPc' = "queued"
  /\ UNCHANGED <<poolVars, authVars, gwVars, rbVars, clockVars, storeVars, crId, crUser, workerVars, published,
                 pollVars, started, generated, failedAt, backoffs, writes>>

\* content.jobId = jobId; content.save(): $set of the modified path on the
\* document with that _id (no document is created when it is gone).
CreateSaveJobId ==
  /\ crPc = "queued"
  /\ store' = IF store[crId].exists
              THEN [store EXCEPT ![crId].jobId = JobIdOf(crId)]
              ELSE store
  /\ crPc' = "idle" /\ crId' = 0 /\ crUser' = NULL
  /\ UNCHANGED <<poolVars, authVars, gwVars, rbVars, clockVars, nextId, jobs, workerVars, published, pollVars,
                 histVars>>

\* The response of createContentHandler once its last save is over: 202
\* with the fields of the document object the handler holds (created by
\* NewContent, jobId assigned) and the job id the queue returned; the save
\* of a document that is gone throws (DocumentNotFoundError).
CreateResponse(cid, user, jid, saved) ==
  IF saved
  THEN [status |-> 202,
        content |-> [id |-> cid, jobId |-> jid,
                     jobStatus |-> NewContent(user).jobStatus],
        jobId |-> jid]
  ELSE [status |-> 500]

(* --------------------- update / delete (PUT, DELETE) ------------------ *)
\* Request bodies of PUT /:id: a body is a function from its keys to
\* their values.  Bodies with a content, bodies with a topic, and bodies
\* that carry keys of fields the endpoint must not write.
Bodies ==
  {[content |-> t] : t \in EditTexts}
    \cup {[topic |-> "T"],
          [content |-> "E", generatedContent |-> "X",
           jobStatus |-> "completed", jobId |-> JobIdOf(0)],
          [generatedContent |-> "X", jobStatus |-> "pending",
           jobId |-> NoJobId]}

Restrict(f, keys) == [k \in (DOMAIN f) \cap keys |-> f[k]]

\* Mutant of Validate: z.object(...).passthrough() keeps the unknown keys.
Validate_passthrough(body) == body

\* Mutant of Validate: the schema also declares jobId.
Validate_keepsJobId(body) == Restrict(body, {"topic", "content", "jobId"})

\* updateContentSchema.parse(req.body): z.object strips the keys the schema
\* does not declare and keeps topic and content (all the values of Bodies
\* are valid for these two).
Validate(body) == Restrict(body, {"topic", "content"})

\* { $set: updates } on a document, for the fields of the document that
\* are modelled (topic is not).
ApplySet(doc, updates) ==
  [f \in DOMAIN doc |-> IF f \in DOMAIN updates THEN updates[f] ELSE doc[f]]

\* throw new AppError('Content not found', 404)
AppErrorNotFound == [status |-> 404, message |-> "Content not found"]

\* getContentById: findOne({_id, userId}); the response and the store
\* after it.
GetContentByIdOutcome(user, cid) ==
  IF FindOwned(cid, user) = {}
  THEN [resp |-> AppErrorNotFound, store |-> store]
  ELSE [resp |-> [status |-> 200, content |-> store[cid]], store |-> store]

\* updateContent: findOneAndUpdate({_id, userId}, {$set: updates}), one
\* atomic operation, 404 when it returns null.
UpdateOutcome(user, cid, updates) ==
  IF FindOwned(cid, user) = {}
  THEN [resp |-> AppErrorNotFound, store |-> store]
  ELSE [resp |-> [status |-> 200, content |-> ApplySet(store[cid], updates)],
        store |-> [store EXCEPT ![cid] = ApplySet(@, updates)]]

\* deleteContent: deleteOne({_id, userId}), 404 when deletedCount is 0.
DeleteOutcome(user, cid) ==
  IF FindOwned(cid, user) = {}
  THEN [resp |-> AppErrorNotFound, store |-> store]
  ELSE [resp |-> [status |-> 204], store |-> [store EXCEPT ![cid] = NoRec]]

\* updateContentHandler: updateContent(id, user, validatedData).
UpdateContent(user, cid, body) ==
  /\ store' = UpdateOutcome(user, cid, Validate(body)).store
  /\ UNCHANGED <<poolVars, authVars, gwVars, rbVars, clockVars, nextId, jobs, createVars, workerVars, published,
                 pollVars, histVars>>

\* deleteContentHandler: deleteContent(id, user); the job is left in the
\* queue.
DeleteContent(user, cid) ==
  /\ store' = DeleteOutcome(user, cid).store
  /\ UNCHANGED <<poolVars, authVars, gwVars, rbVars, clockVars, nextId, jobs, createVars, workerVars, published,
                 pollVars, histVars>>

(* ------------------------------ the clock ----------------------------- *)
\* Time passes up to the next timer of a delayed job ...
AdvanceToTimer ==
  /\ \E c \in ContentIds :
       /\ jobs[c].exists /\ jobs[c].state = "delayed" /\ jobs[c].readyAt > now
       /\ now' = jobs[c].readyAt
  /\ UNCHANGED <<poolVars, authVars, gwVars, rbVars, ticks, storeVars, jobs, createVars, workerVars, published,
                 pollVars, histVars>>

\* ... or by an arbitrary amount, here TickMs, at any moment.
Tick ==
  /\ ticks < MaxTicks
  /\ now' = now + TickMs /\ ticks' = ticks + 1
  /\ UNCHANGED <<poolVars, authVars, gwVars, rbVars, storeVars, jobs, createVars, workerVars, published,
                 pollVars, histVars>>

(* --------------------------- the job queue ---------------------------- *)
\* 2 ^ n
RECURSIVE Pow2(_)
Pow2(n) == IF n <= 0 THEN 1 ELSE 2 * Pow2(n - 1)

\* Mutant of Backoff: backoff type 'fixed'.
Backoff_fixed(attemptsMade) == backoffDelay

\* backoff {type: 'exponential', delay}: delay * 2 ^ (attemptsMade - 1),
\* attemptsMade counting the attempt that just failed.
Backoff(attemptsMade) == backoffDelay * Pow2(attemptsMade - 1)

\* Mutant of RetryAllowed: one retry too many.
RetryAllowed_offByOne(attemptsMade) == attemptsMade <= attempts

\* A job that failed is retried while attemptsMade < attempts.
RetryAllowed(attemptsMade) == attemptsMade < attempts

\* A delayed job becomes ready once its delay has elapsed.
Ready(job, t) == job.state = "delayed" /\ t >= job.readyAt

\* delayed -> waiting
Promote(c) ==
  /\ jobs[c].exists /\ Ready(jobs[c], now)
  /\ jobs' = [jobs EXCEPT ![c].state = "waiting"]
  /\ UNCHANGED <<poolVars, authVars, gwVars, rbVars, clockVars, storeVars, createVars, workerVars, published,
                 pollVars, histVars>>

\* waiting -> active: the worker takes the job and calls the processor.
\* With at most MaxContents jobs the concurrency and the limiter of the
\* Worker never hold a job back here; PoolDispatch has them.
Dispatch(c) ==
  /\ jobs[c].exists /\ jobs[c].state = "waiting"
  /\ wpc[c] = "idle"
  /\ jobs' = [jobs EXCEPT ![c].state = "active"]
  /\ wpc' = [wpc EXCEPT ![c] = "setProcessing"]
  /\ started' = [started EXCEPT ![c] = Append(@, now)]
  /\ UNCHANGED <<poolVars, authVars, gwVars, rbVars, clockVars, storeVars, createVars, wgen, wexisting, werr,
                 published, pollVars, submitted, generated, failedAt, backoffs, writes>>

\* The processor returned: the job is completed with its return value.
MoveToCompleted(job, gen, rec) ==
  [job EXCEPT !.state = "completed", !.attemptsMade = @ + 1,
              !.returnvalue = [contentId |-> rec, jobId |-> job.id,
                               generatedContent |-> gen,
                               status |-> "completed"]]

\* Mutant of MoveToFailed: the job is retried whatever attempts says.
MoveToFailed_alwaysRetry(job, err, t) ==
  [job EXCEPT !.state = "delayed", !.attemptsMade = @ + 1,
              !.readyAt = t + Backoff(job.attemptsMade + 1),
              !.failedReason = err]

\* The processor threw: retry after the backoff, or failed for good.
MoveToFailed(job, err, t) ==
  LET made == job.attemptsMade + 1 IN
  IF RetryAllowed(made)
  THEN [job EXCEPT !.state = "delayed", !.attemptsMade = made,
                   !.readyAt = t + Backoff(made), !.failedReason = err]
  ELSE [job EXCEPT !.state = "failed", !.attemptsMade = made,
                   !.failedReason = err]

\* Terminal jobs are removed from the queue after a retention window.
Prune(c) ==
  /\ jobs[c].exists /\ jobs[c].state \in {"completed", "failed"}
  /\ jobs' = [jobs EXCEPT ![c] = NoJob]
  /\ UNCHANGED <<poolVars, authVars, gwVars, rbVars, clockVars, storeVars, createVars, workerVars, published,
                 pollVars, histVars>>

(* ---------------- updateContentJobStatus (contentService) ------------- *)
\* First await: existingContent = Content.findOne({ jobId }); what the
\* later test !existingContent?.content will see.
ExistingContentEmpty(jid) ==
  \A c \in FindByJobId(jid) : Falsy(store[c].content)

\* Mutant of UpdateData: a content that is already set is cleared.
UpdateData_resetsEdited(doc, jobStatus, gen, existingEmpty) ==
  IF gen = NULL
  THEN [doc EXCEPT !.jobStatus = jobStatus]
  ELSE IF existingEmpty
       THEN [doc EXCEPT !.jobStatus = jobStatus, !.generatedContent = gen,
                        !.content = gen]
       ELSE [doc EXCEPT !.jobStatus = jobStatus, !.generatedContent = gen,
                        !.content = NULL]

\* Mutant of UpdateData: a write that carries a generatedContent leaves
\* jobStatus as it is.
UpdateData_keepsStatus(doc, jobStatus, gen, existingEmpty) ==
  IF gen = NULL
  THEN [doc EXCEPT !.jobStatus = jobStatus]
  ELSE IF existingEmpty
       THEN [doc EXCEPT !.generatedContent = gen, !.content = gen]
       ELSE [doc EXCEPT !.generatedContent = gen]

\* Mutant of UpdateData: a write without generatedContent sets the field
\* to null.
UpdateData_clearsGenerated(doc, jobStatus, gen, existingEmpty) ==
  IF gen = NULL
  THEN [doc EXCEPT !.jobStatus = jobStatus, !.generatedContent = NULL]
  ELSE IF existingEmpty
       THEN [doc EXCEPT !.jobStatus = jobStatus, !.generatedContent = gen,
                        !.content = gen]
       ELSE [doc EXCEPT !.jobStatus = jobStatus, !.generatedContent = gen]

\* updateData for a status and an optional generatedContent (NULL when the
\* argument is undefined), given the earlier read of the content field.
UpdateData(doc, jobStatus, gen, existingEmpty) ==
  IF gen = NULL
  THEN [doc EXCEPT !.jobStatus = jobStatus]
  ELSE IF existingEmpty
       THEN [doc EXCEPT !.jobStatus = jobStatus, !.generatedContent = gen,
                        !.content = gen]
       ELSE [doc EXCEPT !.jobStatus = jobStatus, !.generatedContent = gen]

\* Mutant of FindOneAndUpdate: with the option upsert, a document is
\* inserted when none carries the job id.
FindOneAndUpdate_upsert(st, jid, jobStatus, gen, existingEmpty) ==
  [c \in ContentIds |->
     IF st[c].exists /\ st[c].jobId = jid
     THEN UpdateData(st[c], jobStatus, gen, existingEmpty)
     ELSE IF ~st[c].exists /\ JobIdOf(c) = jid
          THEN [exists |-> TRUE, userId |-> NULL,
                generatedContent |-> gen, content |-> gen,
                jobId |-> jid, jobStatus |-> jobStatus]
          ELSE st[c]]

\* Second await: Content.findOneAndUpdate({ jobId }, { $set: updateData }).
FindOneAndUpdate(st, jid, jobStatus, gen, existingEmpty) ==
  [c \in ContentIds |->
     IF st[c].exists /\ st[c].jobId = jid
     THEN UpdateData(st[c], jobStatus, gen, existingEmpty)
     ELSE st[c]]

\* updateContentJobStatus(jid, jobStatus, gen) on a store st, its two
\* awaits run without interference.
UpdateContentJobStatus(st, jid, jobStatus, gen) ==
  FindOneAndUpdate(st, jid, jobStatus, gen,
                   \A c \in ContentIds :
                     (st[c].exists /\ st[c].jobId = jid) => Falsy(st[c].content))

\* A status write without generatedContent: the first read is not used.
SetJobStatus(st, jid, jobStatus) ==
  FindOneAndUpdate(st, jid, jobStatus, NULL, TRUE)

(* ----------------------- the worker's processor ----------------------- *)
\* History entry of a completed or failed status write: matched tells
\* whether a document carried the job id when the write was applied.
WriteLog(status, matched, gen) ==
  [status |-> status, matched |-> matched, generatedContent |-> gen]

\* Mutant of WSetProcessing: the processing transition is published too.
WSetProcessing_publishes(c) ==
  /\ wpc[c] = "setProcessing"
  /\ store' = SetJobStatus(store, jobs[c].id, "processing")
  /\ published' = Append(published,
                     [jobId |-> jobs[c].id, contentId |-> jobs[c].data.contentId,
                      status |-> "processing", generatedContent |-> NULL,
                      error |-> NULL])
  /\ wpc' = [wpc EXCEPT ![c] = "generate"]
  /\ UNCHANGED <<poolVars, authVars, gwVars, rbVars, clockVars, nextId, jobs, createVars, wgen, wexisting,
                 werr, pollVars, histVars>>

\* await updateContentJobStatus(job.id, PROCESSING)
WSetProcessing(c) ==
  /\ wpc[c] = "setProcessing"
  /\ store' = SetJobStatus(store, jobs[c].id, "processing")
  /\ wpc' = [wpc EXCEPT ![c] = "generate"]
  /\ UNCHANGED <<poolVars, authVars, gwVars, rbVars, clockVars, nextId, jobs, createVars, wgen, wexisting, werr,
                 published, pollVars, histVars>>

\* await aiService.generateContent(...) returns a text
WGenerateOk(c, text) ==
  /\ wpc[c] = "generate"
  /\ wgen' = [wgen EXCEPT ![c] = text]
  /\ generated' = [generated EXCEPT ![c] = @ + 1]
  /\ wpc' = [wpc EXCEPT ![c] = "completeRead"]
  /\ UNCHANGED <<poolVars, authVars, gwVars, rbVars, clockVars, storeVars, jobs, createVars, wexisting, werr,
                 published, pollVars, submitted, started, failedAt, backoffs,
                 writes>>

\* ... or throws
WGenerateFail(c) ==
  /\ wpc[c] = "generate"
  /\ werr' = [werr EXCEPT ![c] = "generation failed"]
  /\ wpc' = [wpc EXCEPT ![c] = "catchWrite"]
  /\ UNCHANGED <<poolVars, authVars, gwVars, rbVars, clockVars, storeVars, jobs, createVars, wgen, wexisting,
                 published, pollVars, histVars>>

\* updateContentJobStatus(job.id, COMPLETED, generatedContent), first await
WCompleteRead(c) ==
  /\ wpc[c] = "completeRead"
  /\ wexisting' = [wexisting EXCEPT ![c] = ExistingContentEmpty(jobs[c].id)]
  /\ wpc' = [wpc EXCEPT ![c] = "completeWrite"]
  /\ UNCHANGED <<poolVars, authVars, gwVars, rbVars, clockVars, storeVars, jobs, createVars, wgen, werr,
                 published, pollVars, histVars>>

\* Mutant of WCompleteWrite: the result of the write is not tested.
WCompleteWrite_ignoresMissing(c) ==
  /\ wpc[c] = "completeWrite"
  /\ store' = FindOneAndUpdate(store, jobs[c].id, "completed", wgen[c],
                               wexisting[c])
  /\ wpc' = [wpc EXCEPT ![c] = "publishCompleted"]
  /\ writes' = [writes EXCEPT ![c] =
                  Append(@, WriteLog("completed", FindByJobId(jobs[c].id) # {},
                                     wgen[c]))]
  /\ UNCHANGED <<poolVars, authVars, gwVars, rbVars, clockVars, nextId, jobs, createVars, wgen, wexisting,
                 werr, published, pollVars, submitted, generated, started,
                 failedAt, backoffs>>

\* ... second await; if (!content) throw new Error('Content not found ...')
WCompleteWrite(c) ==
  /\ wpc[c] = "completeWrite"
  /\ store' = FindOneAndUpdate(store, jobs[c].id, "completed", wgen[c],
                               wexisting[c])
  /\ IF FindByJobId(jobs[c].id) # {}
     THEN /\ wpc' = [wpc EXCEPT ![c] = "publishCompleted"]
          /\ writes' = [writes EXCEPT ![c] =
                          Append(@, WriteLog("completed", TRUE, wgen[c]))]
          /\ werr' = werr
     ELSE /\ wpc' = [wpc EXCEPT ![c] = "catchWrite"]
          /\ werr' = [werr EXCEPT ![c] = "Content not found"]
          /\ writes' = writes
  /\ UNCHANGED <<poolVars, authVars, gwVars, rbVars, clockVars, nextId, jobs, createVars, wgen, wexisting,
                 published, pollVars, submitted, generated, started, failedAt, backoffs>>

\* JSON of the completed event; contentId is the updated document's _id.
CompletedMessage(job, rec, gen) ==
  [jobId |-> job.id, contentId |-> rec, status |-> "completed",
   generatedContent |-> gen, error |-> NULL]

\* Mutant of FailedMessage: contentId is taken from job.attemptsMade.
FailedMessage_attemptsAsId(job, err) ==
  [jobId |-> job.id, contentId |-> job.attemptsMade, status |-> "failed",
   generatedContent |-> NULL, error |-> err]

\* JSON of the failed event; contentId is job.data.contentId.
FailedMessage(job, err) ==
  [jobId |-> job.id, contentId |-> job.data.contentId, status |-> "failed",
   generatedContent |-> NULL, error |-> err]

\* await redis.publish('job-updates', ...completed...)
WPublishCompleted(c) ==
  /\ wpc[c] = "publishCompleted"
  /\ published' = Append(published, CompletedMessage(jobs[c], c, wgen[c]))
  /\ wpc' = [wpc EXCEPT ![c] = "return"]
  /\ UNCHANGED <<poolVars, authVars, gwVars, rbVars, clockVars, storeVars, jobs, createVars, wgen, wexisting,
                 werr, pollVars, histVars>>

\* return {...}: the queue marks the job completed.
WReturn(c) ==
  /\ wpc[c] = "return"
  /\ jobs' = [jobs EXCEPT ![c] = MoveToCompleted(@, wgen[c], c)]
  /\ wpc' = [wpc EXCEPT ![c] = "idle"]
  /\ wgen' = [wgen EXCEPT ![c] = NULL]
  /\ wexisting' = [wexisting EXCEPT ![c] = FALSE]
  /\ UNCHANGED <<poolVars, authVars, gwVars, rbVars, clockVars, storeVars, createVars, werr, published,
                 pollVars, histVars>>

\* Mutant of WCatchWrite: the failed status is written after the publish
\* (here: not before it).
WCatchWrite_skipped(c) ==
  /\ wpc[c] = "catchWrite"
  /\ wpc' = [wpc EXCEPT ![c] = "publishFailed"]
  /\ UNCHANGED <<poolVars, authVars, gwVars, rbVars, clockVars, storeVars, jobs, createVars, wgen,
                 wexisting, werr, published, pollVars, histVars>>

\* Mutant of WCatchWrite: the failed status is written only when the
\* attempt was the last one.
WCatchWrite_finalOnly(c) ==
  /\ wpc[c] = "catchWrite"
  /\ IF jobs[c].attemptsMade + 1 >= attempts
     THEN /\ store' = SetJobStatus(store, jobs[c].id, "failed")
          /\ writes' = [writes EXCEPT ![c] =
                  Append(@, WriteLog("failed", FindByJobId(jobs[c].id) # {},
                                     NULL))]
     ELSE UNCHANGED <<poolVars, authVars, store, writes>>
  /\ wpc' = [wpc EXCEPT ![c] = "publishFailed"]
  /\ UNCHANGED <<poolVars, authVars, gwVars, rbVars, clockVars, nextId, jobs, createVars, wgen, wexisting,
                 werr, published, pollVars, submitted, generated, started, failedAt, backoffs>>

\* Mutant of WCatchWrite: the record is set back to queued for the retry.
WCatchWrite_requeues(c) ==
  /\ wpc[c] = "catchWrite"
  /\ store' = SetJobStatus(store, jobs[c].id, "queued")
  /\ writes' = [writes EXCEPT ![c] =
                  Append(@, WriteLog("failed", FindByJobId(jobs[c].id) # {},
                                     NULL))]
  /\ wpc' = [wpc EXCEPT ![c] = "publishFailed"]
  /\ UNCHANGED <<poolVars, authVars, gwVars, rbVars, clockVars, nextId, jobs, createVars, wgen, wexisting, werr,
                 published, pollVars, submitted, generated, started, failedAt, backoffs>>

\* catch: await updateContentJobStatus(job.id, FAILED)
WCatchWrite(c) ==
  /\ wpc[c] = "catchWrite"
  /\ store' = SetJobStatus(store, jobs[c].id, "failed")
  /\ writes' = [writes EXCEPT ![c] =
                  Append(@, WriteLog("failed", FindByJobId(jobs[c].id) # {},
                                     NULL))]
  /\ wpc' = [wpc EXCEPT ![c] = "publishFailed"]
  /\ UNCHANGED <<poolVars, authVars, gwVars, rbVars, clockVars, nextId, jobs, createVars, wgen, wexisting, werr,
                 published, pollVars, submitted, generated, started, failedAt, backoffs>>

\* catch: await redis.publish('job-updates', ...failed...)
WPublishFailed(c) ==
  /\ wpc[c] = "publishFailed"
  /\ published' = Append(published, FailedMessage(jobs[c], werr[c]))
  /\ wpc' = [wpc EXCEPT ![c] = "rethrow"]
  /\ UNCHANGED <<poolVars, authVars, gwVars, rbVars, clockVars, storeVars, jobs, createVars, wgen, wexisting,
                 werr, pollVars, histVars>>

\* Mutant of WRethrow: the catch block swallows the error, and the queue
\* never learns that the attempt is over.
WRethrow_swallowed(c) ==
  /\ wpc[c] = "rethrow"
  /\ failedAt' = [failedAt EXCEPT ![c] = Append(@, now)]
  /\ wpc' = [wpc EXCEPT ![c] = "idle"]
  /\ wgen' = [wgen EXCEPT ![c] = NULL]
  /\ werr' = [werr EXCEPT ![c] = NULL]
  /\ wexisting' = [wexisting EXCEPT ![c] = FALSE]
  /\ UNCHANGED <<poolVars, authVars, gwVars, rbVars, clockVars, storeVars, jobs, createVars, published,
                 pollVars, submitted, generated, started, backoffs, writes>>

\* catch: throw error; the queue applies its retry policy.
WRethrow(c) ==
  /\ wpc[c] = "rethrow"
  /\ jobs' = [jobs EXCEPT ![c] = MoveToFailed(@, werr[c], now)]
  /\ failedAt' = [failedAt EXCEPT ![c] = Append(@, now)]
  /\ backoffs' = [backoffs EXCEPT ![c] =
                    IF jobs'[c].state = "delayed"
                    THEN Append(@, jobs'[c].readyAt - now) ELSE @]
  /\ wpc' = [wpc EXCEPT ![c] = "idle"]
  /\ wgen' = [wgen EXCEPT ![c] = NULL]
  /\ werr' = [werr EXCEPT ![c] = NULL]
  /\ wexisting' = [wexisting EXCEPT ![c] = FALSE]
  /\ UNCHANGED <<poolVars, authVars, gwVars, rbVars, clockVars, storeVars, createVars, published, pollVars,
                 submitted, generated, started, writes>>

(* ------------- getJobStatusHandler (GET /job/:jobId/status) ----------- *)
\* getJobStatus(jobId): contentQueue.getJob(jobId), null when the queue
\* holds no such job, else the job's state and failedReason (progress and
\* returnValue are read too; the handler uses neither returnValue nor data).
GetJobStatus(jid) ==
  IF \E c \in ContentIds : jobs[c].exists /\ jobs[c].id = jid
  THEN LET job == jobs[CHOOSE c \in ContentIds :
                         jobs[c].exists /\ jobs[c].id = jid]
       IN [exists |-> TRUE, state |-> job.state,
           failedReason |-> job.failedReason]
  ELSE NoJob

\* getContentByJobId(jobId): Content.findOne({ jobId })
GetContentByJobId(jid) ==
  IF FindByJobId(jid) # {} THEN store[CHOOSE c \in FindByJobId(jid) : TRUE]
  ELSE NoRec

JobNotFound == [status |-> 404, message |-> "Job not found"]
ContentNotFound ==
  [status |-> 404, message |-> "Content not found or access denied"]

\* The response built from the queue's answer q and the document doc.
StatusResponse(jid, user, q, doc) ==
  IF ~q.exists THEN JobNotFound
  ELSE IF ~doc.exists \/ doc.userId # user THEN ContentNotFound
  ELSE [status |-> 200, jobId |-> jid,
        jobStatus |-> [state |-> q.state, failedReason |-> q.failedReason],
        content |-> [jobStatus |-> doc.jobStatus,
                     generatedContent |-> doc.generatedContent,
                     content |-> doc.content]]

\* Mutant of PollQueue: a job missing from the queue falls back to the
\* Content document instead of ending the request with 404.
PollQueue_fallback(user, pid) ==
  /\ pollPc = "idle"
  /\ pollReq' = [user |-> user, jobId |-> JobIdOf(pid)]
  /\ pollQ' = GetJobStatus(JobIdOf(pid))
  /\ IF pollQ'.exists
     THEN pollPc' = "gotQueue" /\ resp' = NoResp /\ pollDoc' = NoRec
     ELSE /\ pollPc' = "responded"
          /\ pollDoc' = GetContentByJobId(JobIdOf(pid))
          /\ resp' = StatusResponse(JobIdOf(pid), user,
                         [exists |-> TRUE, state |-> NULL,
                          failedReason |-> NULL],
                         GetContentByJobId(JobIdOf(pid)))
  /\ UNCHANGED <<poolVars, authVars, gwVars, rbVars, clockVars, storeVars, jobs, createVars, workerVars,
                 published, histVars>>

\* const jobStatus = await getJobStatus(jobId); if (!jobStatus) 404
PollQueue(user, pid) ==
  /\ pollPc = "idle"
  /\ pollReq' = [user |-> user, jobId |-> JobIdOf(pid)]
  /\ pollQ' = GetJobStatus(JobIdOf(pid))
  /\ IF pollQ'.exists
     THEN pollPc' = "gotQueue" /\ resp' = NoResp /\ pollDoc' = NoRec
     ELSE /\ pollPc' = "responded"
          /\ pollDoc' = GetContentByJobId(JobIdOf(pid))
          /\ resp' = StatusResponse(JobIdOf(pid), user, pollQ', NoRec)
  /\ UNCHANGED <<poolVars, authVars, gwVars, rbVars, clockVars, storeVars, jobs, createVars, workerVars,
                 published, histVars>>

\* const content = await getContentByJobId(jobId); 404 or 200
PollContent ==
  /\ pollPc = "gotQueue"
  /\ resp' = StatusResponse(pollReq.jobId, pollReq.user, pollQ,
                            GetContentByJobId(pollReq.jobId))
  /\ pollDoc' = GetContentByJobId(pollReq.jobId)
  /\ pollPc' = "responded"
  /\ UNCHANGED <<poolVars, authVars, gwVars, rbVars, clockVars, storeVars, jobs, createVars, workerVars,
                 published, pollReq, pollQ, histVars>>

\* The response has been sent; the handler is over.
PollEnd ==
  /\ pollPc = "responded"
  /\ pollPc' = "idle" /\ resp' = NoResp
  /\ pollReq' = [user |-> NULL, jobId |-> NoJobId] /\ pollQ' = NoJob
  /\ pollDoc' = NoRec
  /\ UNCHANGED <<poolVars, authVars, gwVars, rbVars, clockVars, storeVars, jobs, createVars, workerVars,
                 published, histVars>>

(* ------------- rollbackContentHandler (POST /:id/rollback) ------------ *)
RollbackNotFound == [status |-> 404, message |-> "Content not found"]
RollbackInvalidState ==
  [status |-> 400,
   message |-> "No generated content available to rollback to"]
\* save() of a document that is gone: DocumentNotFoundError, not an AppError.
RollbackSaveError == [status |-> 500]

\* The 200 response, from the document object the handler holds.
RollbackOk(doc) ==
  [status |-> 200, generatedContent |-> doc.generatedContent,
   content |-> doc.content, jobStatus |-> doc.jobStatus]

\* Mutant of RollbackChecked: the test of generatedContent is left out.
RollbackChecked_noTest(doc) == TRUE

\* if (!content.generatedContent) throw new AppError(..., 400)
RollbackChecked(doc) == ~Falsy(doc.generatedContent)

\* const content = await Content.findOne({ _id, userId }); 404, 400, or
\* the handler goes on with the document it read.
RollbackReadResp(user, cid) ==
  IF FindOwned(cid, user) = {} THEN RollbackNotFound
  ELSE IF ~RollbackChecked(store[cid]) THEN RollbackInvalidState
  ELSE NoResp

RollbackRead(user, cid) ==
  /\ rbPc = "idle"
  /\ rbReq' = [user |-> user, id |-> cid]
  /\ rbResp' = RollbackReadResp(user, cid)
  /\ rbDoc' = IF FindOwned(cid, user) = {} THEN NoRec ELSE store[cid]
  /\ rbPc' = IF rbResp'.status = 0 THEN "save" ELSE "responded"
  /\ UNCHANGED <<poolVars, authVars, gwVars, clockVars, storeVars, jobs, createVars, workerVars,
                 published, pollVars, histVars>>

\* Mutant of SaveRollback: the assignment goes the other way.
SaveRollback_reversed(doc, read) ==
  [doc EXCEPT !.generatedContent = read.content]

\* content.content = content.generatedContent; await content.save(): the
\* save sets the modified path, content, on the stored document.
SaveRollback(doc, read) == [doc EXCEPT !.content = read.generatedContent]

\* The save: no write when content already equals generatedContent in the
\* document as read (no path is modified); an error when the document has
\* been deleted since the read.
RollbackSave ==
  /\ rbPc = "save"
  /\ IF ~store[rbReq.id].exists
     THEN store' = store /\ rbResp' = RollbackSaveError
     ELSE /\ store' = IF rbDoc.content = rbDoc.generatedContent THEN store
                      ELSE [store EXCEPT ![rbReq.id] = SaveRollback(@, rbDoc)]
          /\ rbResp' = RollbackOk([rbDoc EXCEPT
                                     !.content = rbDoc.generatedContent])
  /\ rbPc' = "responded"
  /\ UNCHANGED <<poolVars, authVars, gwVars, clockVars, nextId, jobs, createVars, workerVars,
                 published, pollVars, rbReq, rbDoc, histVars>>

\* The response has been sent; the handler is over.
RollbackEnd ==
  /\ rbPc = "responded"
  /\ rbPc' = "idle" /\ rbReq' = [user |-> NULL, id |-> 0]
  /\ rbDoc' = NoRec /\ rbResp' = NoResp
  /\ UNCHANGED <<poolVars, authVars, gwVars, clockVars, storeVars, jobs, createVars, workerVars,
                 published, pollVars, histVars>>

(* ------------------ the gateway (socket.io, Redis) -------------------- *)
\* `job-${jobId}`
RoomOf(jid) == <<"job-">> \o jid

\* History entry of a join: how many messages had been published, handled
\* by the gateway and received by the connection at that moment.
JoinLog(s, room) ==
  [room |-> room, pub |-> Len(published), handled |-> gwHandled,
   got |-> Len(received[s])]

\* socket.on('subscribe-job', jobId): socket.join(`job-${jobId}`)
SubscribeJob(s, pid) ==
  /\ connected[s]
  /\ RoomOf(JobIdOf(pid)) \notin rooms[s]
  /\ rooms' = [rooms EXCEPT ![s] = @ \cup {RoomOf(JobIdOf(pid))}]
  /\ joined' = [joined EXCEPT ![s] = @ \cup {JoinLog(s, RoomOf(JobIdOf(pid)))}]
  /\ UNCHANGED <<poolVars, authVars, rbVars, clockVars, storeVars, jobs, createVars, workerVars,
                 published, pollVars, connected, gwHandled, received,
                 deliveredIdx, histVars>>

\* socket.on('unsubscribe-job', jobId): socket.leave(`job-${jobId}`)
UnsubscribeJob(s, pid) ==
  /\ connected[s]
  /\ RoomOf(JobIdOf(pid)) \in rooms[s]
  /\ rooms' = [rooms EXCEPT ![s] = @ \ {RoomOf(JobIdOf(pid))}]
  /\ joined' = [joined EXCEPT ![s] =
                  {j \in @ : j.room # RoomOf(JobIdOf(pid))}]
  /\ UNCHANGED <<poolVars, authVars, rbVars, clockVars, storeVars, jobs, createVars, workerVars,
                 published, pollVars, connected, gwHandled, received,
                 deliveredIdx, histVars>>

\* socket.on('disconnect'): the socket has left all its rooms.
Disconnect(s) ==
  /\ connected[s]
  /\ connected' = [connected EXCEPT ![s] = FALSE]
  /\ rooms' = [rooms EXCEPT ![s] = {}]
  /\ joined' = [joined EXCEPT ![s] = {}]
  /\ UNCHANGED <<poolVars, authVars, rbVars, clockVars, storeVars, jobs, createVars, workerVars,
                 published, pollVars, gwHandled, received, deliveredIdx,
                 histVars>>

\* Mutant of NextMessage: the newest message is handled first.
NextMessage_newest(n) == Len(published) - n

\* The message the subscriber connection gets next: Redis delivers the
\* messages of a channel to a connection in the order of their publication.
NextMessage(n) == n + 1

\* Mutant of EmitJobUpdate: the update is emitted twice.
EmitJobUpdate_twice(rcv, jid, update) ==
  [s \in Conns |->
     IF connected[s] /\ RoomOf(jid) \in rooms[s]
     THEN Append(Append(rcv[s], update), update) ELSE rcv[s]]

\* Mutant of EmitJobUpdate: io.emit(...), to every connected socket.
EmitJobUpdate_broadcast(rcv, jid, update) ==
  [s \in Conns |-> IF connected[s] THEN Append(rcv[s], update) ELSE rcv[s]]

\* emitJobUpdate(update.jobId, update): io.to(`job-${jobId}`).emit(...) to
\* the sockets in the room now (the timestamp is not modelled).
EmitJobUpdate(rcv, jid, update) ==
  [s \in Conns |->
     IF connected[s] /\ RoomOf(jid) \in rooms[s]
     THEN Append(rcv[s], update) ELSE rcv[s]]

\* A text on the channel that is not JSON.
Malformed == [malformed |-> TRUE]

\* JSON.parse(message) returns the update; it throws for a malformed text.
ParseOk(message) == "jobId" \in DOMAIN message

\* Mutant of GatewayMessage: once a message could not be parsed, nothing is
\* delivered any more.
GatewayMessage_stopsAfterError ==
  /\ gwHandled < Len(published)
  /\ LET update == published[NextMessage(gwHandled)] IN
       received' = IF \A k \in 1..(gwHandled + 1) : ParseOk(published[k])
                   THEN EmitJobUpdate(received, update.jobId, update)
                   ELSE received
  /\ deliveredIdx' =
       [s \in Conns |->
          deliveredIdx[s]
            \o [k \in 1..(Len(received'[s]) - Len(received[s])) |->
                  NextMessage(gwHandled)]]
  /\ gwHandled' = gwHandled + 1
  /\ UNCHANGED <<poolVars, authVars, rbVars, joined, clockVars, storeVars, jobs, createVars, workerVars,
                 published, pollVars, rooms, connected, histVars>>

\* redisSubscriber.on('message'): try { JSON.parse, emitJobUpdate } catch
\* { console.error }: a message that cannot be parsed is logged and
\* dropped.
GatewayMessage ==
  /\ gwHandled < Len(published)
  /\ LET update == published[NextMessage(gwHandled)] IN
       received' = IF ParseOk(update)
                   THEN EmitJobUpdate(received, update.jobId, update)
                   ELSE received
  /\ deliveredIdx' =
       [s \in Conns |->
          deliveredIdx[s]
            \o [k \in 1..(Len(received'[s]) - Len(received[s])) |->
                  NextMessage(gwHandled)]]
  /\ gwHandled' = gwHandled + 1
  /\ UNCHANGED <<poolVars, authVars, rbVars, joined, clockVars, storeVars, jobs, createVars, workerVars,
                 published, pollVars, rooms, connected, histVars>>

(* --------------------------- specification ---------------------------- *)
\* A request of user for id finds a record. A request that finds none is
\* answered 404 and changes nothing (UpdateOutcome, DeleteOutcome): it is a
\* stuttering step, which the next-state relation leaves out.
Found(user, id) == FindOwned(id, user) # {}

\* The request handlers, the queue and the worker.
NextCore ==
  \/ \E u \in Users : CreateContent(u)
  \/ CreateAddJob
  \/ CreateSaveJobId
  \/ \E u \in Users, p \in ProbeIds, b \in Bodies :
       Found(u, p) /\ UpdateContent(u, p, b)
  \/ \E u \in Users, p \in ProbeIds :
       Found(u, p) /\ DeleteContent(u, p)
  \/ AdvanceToTimer
  \/ \E c \in ContentIds : Promote(c)
  \/ \E c \in ContentIds : Dispatch(c)
  \/ \E c \in ContentIds : WSetProcessing(c)
  \/ \E c \in ContentIds, g \in GenTexts : WGenerateOk(c, g)
  \/ \E c \in ContentIds : WGenerateFail(c)
  \/ \E c \in ContentIds : WCompleteRead(c)
  \/ \E c \in ContentIds : WCompleteWrite(c)
  \/ \E c \in ContentIds : WPublishCompleted(c)
  \/ \E c \in ContentIds : WReturn(c)
  \/ \E c \in ContentIds : WCatchWrite(c)
  \/ \E c \in ContentIds : WPublishFailed(c)
  \/ \E c \in ContentIds : WRethrow(c)
  \/ \E c \in ContentIds : Prune(c)

\* The status poll.
NextPoll ==
  \/ \E u \in Users, p \in ProbeIds : PollQueue(u, p)
  \/ PollContent
  \/ PollEnd

\* The rollback requests.
NextRollback ==
  \/ \E u \in Users, p \in ProbeIds : RollbackRead(u, p)
  \/ RollbackSave
  \/ RollbackEnd

\* The gateway and its clients.
NextGateway ==
  \/ \E s \in Conns, p \in ProbeIds : SubscribeJob(s, p)
  \/ \E s \in Conns, p \in ProbeIds : UnsubscribeJob(s, p)
  \/ \E s \in Conns : Disconnect(s)
  \/ GatewayMessage

\* The pipeline under a clock that may also advance between timers.
Next == NextCore \/ Tick

Spec == Init /\ [][Next]_vars

\* What the queue and the worker do for job c.
JobStep(c) ==
  \/ Promote(c)
  \/ Dispatch(c)
  \/ WSetProcessing(c)
  \/ \E g \in GenTexts : WGenerateOk(c, g)
  \/ WGenerateFail(c)
  \/ WCompleteRead(c)
  \/ WCompleteWrite(c)
  \/ WPublishCompleted(c)
  \/ WReturn(c)
  \/ WCatchWrite(c)
  \/ WPublishFailed(c)
  \/ WRethrow(c)

\* The queue and the worker keep running: a timer that is due fires, a
\* ready job is taken, and every awaited operation of the processor ends.
Fairness ==
  /\ WF_vars(AdvanceToTimer)
  /\ \A c \in ContentIds : WF_vars(JobStep(c))

SpecFair == Init /\ [][Next]_vars /\ Fairness

\* The pipeline with status polls at any moment.
NextWithPoll == NextCore \/ NextPoll

SpecPoll == Init /\ [][NextWithPoll]_vars

\* The pipeline with rollback requests at any moment.
NextWithRollback == NextCore \/ NextRollback

SpecRollback == Init /\ [][NextWithRollback]_vars

\* The pipeline with the gateway delivering the published events.
NextWithGateway == NextCore \/ NextGateway

SpecGateway == Init /\ [][NextWithGateway]_vars

(* ------------------------------ claims -------------------------------- *)
\* The completion write of job c is being applied in this step.
CompletionWriteStep(c) ==
  wpc[c] = "completeWrite" /\ wpc'[c] # "completeWrite"

\* The document carrying job c's id, before the step.
HasDoc(c) == store[c].exists /\ store[c].jobId = jobs[c].id

\* C1: a user edit committed before the completion write takes effect is
\* never clobbered: when the write is applied to a document whose content
\* is the user's text "E", the document keeps content = "E" and gets
\* generatedContent = G.
C1_EditNeverClobbered ==
  [][\A c \in ContentIds :
       (CompletionWriteStep(c) /\ HasDoc(c) /\ store[c].content = "E")
         => (store'[c].content = "E"
             /\ store'[c].generatedContent = wgen[c])]_vars

HandlerResponse(user, pid) ==
  StatusResponse(JobIdOf(pid), user, GetJobStatus(JobIdOf(pid)),
                 GetContentByJobId(JobIdOf(pid)))

\* Nothing exists for the job id: no job in the queue, no document.
NothingExists(pid) ==
  ~GetJobStatus(JobIdOf(pid)).exists /\ ~GetContentByJobId(JobIdOf(pid)).exists

\* C3: for any requester, the response to a job id whose document belongs
\* to another user equals (status and body) the response to a job id for
\* which nothing exists.
C3_OwnershipIndistinguishable ==
  \A u \in Users, p, q \in ProbeIds :
    (GetContentByJobId(JobIdOf(p)).exists
       /\ GetContentByJobId(JobIdOf(p)).userId # u /\ NothingExists(q))
      => HandlerResponse(u, p) = HandlerResponse(u, q)

\* The messages of a sequence that carry job id jid, in order.
MessagesOf(msgs, jid) ==
  LET ForJob(m) == m.jobId = jid IN SelectSeq(msgs, ForJob)

\* The statuses of a sequence of messages.
Statuses(msgs) == [i \in 1..Len(msgs) |-> msgs[i].status]

\* a can be obtained from b by leaving elements out.
RECURSIVE IsSubseq(_, _)
IsSubseq(a, b) ==
  IF a = <<>> THEN TRUE
  ELSE IF b = <<>> THEN FALSE
  ELSE IF Head(a) = Head(b) THEN IsSubseq(Tail(a), Tail(b))
  ELSE IsSubseq(a, Tail(b))

JobTerminal(c) == jobs[c].exists /\ jobs[c].state \in {"completed", "failed"}

\* C4 (as claimed): over the whole life of a job its messages are a single
\* completed message, or a failure message followed by a final-failure
\* message.
C4_TwoShapesOnly ==
  \A c \in ContentIds :
    JobTerminal(c) =>
      Statuses(MessagesOf(published, JobIdOf(c)))
        \in {<<"completed">>, <<"failed", "failed">>}

\* C4 (amended): the messages of a job are at most 3 (one per attempt):
\* failed messages, followed by at most one completed message, which is the
\* last; and a connection receives the messages of a job in the order of
\* their publication.
C4_ShapesAndOrder ==
  \A c \in ContentIds :
    LET st == Statuses(MessagesOf(published, JobIdOf(c))) IN
    /\ Len(st) <= 3
    /\ \A i \in 1..Len(st) :
         st[i] \in {"failed", "completed"} /\ (st[i] = "completed" => i = Len(st))
    /\ JobTerminal(c) =>
         st \in {<<"completed">>, <<"failed", "completed">>,
                 <<"failed", "failed", "completed">>,
                 <<"failed", "failed", "failed">>}
    /\ \A s \in Conns :
         IsSubseq(MessagesOf(received[s], JobIdOf(c)),
                  MessagesOf(published, JobIdOf(c)))

\* C4 witness: a connection has received two failed messages and then the
\* completed message of one job.
C4_Witness ==
  \E s \in Conns, c \in ContentIds :
    Statuses(MessagesOf(received[s], JobIdOf(c)))
      = <<"failed", "failed", "completed">>

PublishStep(c) ==
  /\ wpc[c] \in {"publishCompleted", "publishFailed"}
  /\ wpc'[c] \in {"return", "rethrow"}
  /\ Len(published') = Len(published) + 1

Last(seq) == seq[Len(seq)]

\* C7: the Content store write precedes the publish: when a message with
\* status s is published for an attempt, the write of jobStatus = s of that
\* attempt has been applied before; at that moment the document the write
\* was applied to (unless deleted since) has jobStatus = s and, for
\* s = completed, the generatedContent the message carries.
C7_WriteBeforePublish ==
  [][\A c \in ContentIds :
       PublishStep(c) =>
         LET m == Last(published')
             n == Len(MessagesOf(published', JobIdOf(c)))
         IN /\ m.jobId = JobIdOf(c)
            /\ Len(writes[c]) = n
            /\ writes[c][n].status = m.status
            /\ (writes[c][n].matched /\ HasDoc(c)) =>
                 store[c].jobStatus = m.status
            /\ m.status = "completed" =>
                 /\ writes[c][n].matched
                 /\ writes[c][n].generatedContent = m.generatedContent
                 /\ HasDoc(c) =>
                      store[c].generatedContent = m.generatedContent]_vars

\* C7 witness: a completed message has been published after a failed one,
\* the document holding the generatedContent it carries.
C7_Witness ==
  \E c \in ContentIds :
    /\ wpc[c] = "return" /\ HasDoc(c)
    /\ Statuses(MessagesOf(published, JobIdOf(c))) = <<"failed", "completed">>
    /\ store[c].generatedContent = Last(published).generatedContent

\* C8: every published message has status completed or failed, and the
\* number of messages published for a job is the number of its terminal
\* transitions (one less while the transition just written is about to be
\* published).
C8_OneMessagePerTerminalTransition ==
  /\ \A i \in 1..Len(published) :
       published[i].status \in {"completed", "failed"}
  /\ \A c \in ContentIds :
       Len(MessagesOf(published, JobIdOf(c)))
         = Len(writes[c])
           - (IF wpc[c] \in {"publishCompleted", "publishFailed"}
              THEN 1 ELSE 0)

\* C8 witness: a job has made three terminal transitions in three attempts
\* (each of which wrote processing first) and three messages are published.
C8_Witness ==
  \E c \in ContentIds :
    /\ Len(writes[c]) = 3 /\ Len(started[c]) = 3 /\ wpc[c] = "idle"
    /\ Len(MessagesOf(published, JobIdOf(c))) = 3

\* Job c failed its last attempt and awaits its retry.
AwaitingRetry(c) ==
  jobs[c].exists /\ jobs[c].state = "delayed" /\ jobs[c].attemptsMade >= 1

\* C9: every failed attempt writes jobStatus = failed before the error is
\* re-raised: while a job awaits its retry after its k-th failed attempt,
\* k < 3, the worker has made k failed writes, the document the last one
\* was applied to has jobStatus = failed, and a status poll by its owner
\* reports the queue state delayed and the jobStatus failed.
C9_FailedOnEveryAttempt ==
  \A c \in ContentIds :
    /\ wpc[c] = "rethrow" =>
         /\ Len(writes[c]) = jobs[c].attemptsMade + 1
         /\ Last(writes[c]).status = "failed"
    /\ AwaitingRetry(c) =>
         /\ jobs[c].attemptsMade < 3
         /\ Len(writes[c]) = jobs[c].attemptsMade
         /\ \A k \in 1..Len(writes[c]) : writes[c][k].status = "failed"
         /\ (Last(writes[c]).matched /\ HasDoc(c)) =>
              /\ store[c].jobStatus = "failed"
              /\ HandlerResponse(store[c].userId, c).status = 200
              /\ HandlerResponse(store[c].userId, c).jobStatus.state = "delayed"
              /\ HandlerResponse(store[c].userId, c).content.jobStatus = "failed"

\* C9 witness: a poll has answered with queue state delayed and jobStatus
\* failed while the job awaits its retry after its second failed attempt.
C9_Witness ==
  \E c \in ContentIds :
    /\ AwaitingRetry(c) /\ jobs[c].attemptsMade = 2
    /\ pollPc = "responded" /\ pollReq.jobId = JobIdOf(c)
    /\ resp.status = 200 /\ resp.jobStatus.state = "delayed"
    /\ resp.content.jobStatus = "failed"

\* Job c has failed all its attempts.
Exhausted(c) == Len(failedAt[c]) = 3

CompletionWrite(c, g) ==
  FindOneAndUpdate(store, JobIdOf(c), "completed", g,
                   ExistingContentEmpty(JobIdOf(c)))

\* C11: a completion write applied without interference to an existing
\* record leaves generatedContent = G and jobStatus = completed, content = G
\* if content was null, and content unchanged if a user edit had set it (to
\* any value the update endpoint accepts).
C11_CompletionWriteContract ==
  \A c \in ContentIds, g \in GenTexts :
    (store[c].exists /\ store[c].jobId = JobIdOf(c)) =>
      LET after == CompletionWrite(c, g)[c] IN
      /\ after.generatedContent = g /\ after.jobStatus = "completed"
      /\ store[c].content = NULL => after.content = g
      /\ store[c].content \in EditTexts => after.content = store[c].content

\* How many times x occurs in seq.
Count(seq, x) == Cardinality({k \in DOMAIN seq : seq[k] = x})

\* The room a published message is emitted to.
RoomOfMessage(i) == RoomOf(published[i].jobId)

\* C12 (as claimed): a connection that is a member of a job's room has
\* received exactly once every message of the job published after it
\* subscribed (and handled by the gateway), and has received since it
\* subscribed no message that was published before it subscribed.
C12_NoMessagePublishedBeforeJoin ==
  \A s \in Conns : \A j \in joined[s] :
    /\ \A i \in (j.pub + 1)..gwHandled :
         RoomOfMessage(i) = j.room => Count(deliveredIdx[s], i) = 1
    /\ \A k \in (j.got + 1)..Len(deliveredIdx[s]) :
         RoomOfMessage(deliveredIdx[s][k]) = j.room
           => deliveredIdx[s][k] > j.pub

\* C12 (amended): a connection that is a member of a job's room has
\* received exactly once every message of the job that the gateway has
\* handled since it subscribed, among them the messages published before
\* it subscribed that the gateway had not handled yet; it has received
\* since it subscribed no message the gateway had handled before, and it
\* never has a message twice.
C12_ExactlyOnceSinceJoin ==
  \A s \in Conns :
    /\ \A i \in 1..Len(published) : Count(deliveredIdx[s], i) <= 1
    /\ \A j \in joined[s] :
         /\ \A i \in (j.handled + 1)..gwHandled :
              RoomOfMessage(i) = j.room => Count(deliveredIdx[s], i) = 1
         /\ \A k \in (j.got + 1)..Len(deliveredIdx[s]) :
              deliveredIdx[s][k] > j.handled

\* C12 witness: a connection subscribed after the first message of a job
\* was published and handled; it has received the second message and not
\* the first.
C12_Witness ==
  \E s \in Conns : \E j \in joined[s] :
    /\ j.pub = 1 /\ j.handled = 1 /\ gwHandled = 2
    /\ RoomOfMessage(1) = j.room /\ RoomOfMessage(2) = j.room
    /\ deliveredIdx[s] = <<2>> /\ received[s] = <<published[2]>>

\* C13: when the gateway handles a message for job J, every connection that
\* is then a member of J's room gets it once and no other connection gets
\* anything; nothing is delivered in any other step, so a message is not
\* delivered later to a connection that was not a member.
C13_DeliveredToCurrentMembers ==
  [][/\ gwHandled' # gwHandled =>
          /\ gwHandled' = gwHandled + 1
          /\ \A s \in Conns :
               received'[s] =
                 IF connected[s] /\ RoomOfMessage(gwHandled + 1) \in rooms[s]
                 THEN Append(received[s], published[gwHandled + 1])
                 ELSE received[s]
     /\ gwHandled' = gwHandled => received' = received
     /\ \A s \in Conns :
          /\ ~connected[s] => rooms[s] = {}
          /\ \A k \in 1..Len(deliveredIdx[s]) : deliveredIdx[s][k] <= gwHandled
    ]_vars

\* C13 witness: a connection received the first message of a job,
\* unsubscribed, and the gateway has handled the job's second message
\* without delivering it to the connection.
C13_Witness ==
  \E s \in Conns :
    /\ connected[s] /\ rooms[s] = {} /\ gwHandled = 2
    /\ published[1].jobId = published[2].jobId
    /\ deliveredIdx[s] = <<1>>

\* C15: the first attempt of a job submitted at time T starts at
\* T + 60000 ms or later; the 60 s delay is applied at submission only: a
\* job that waits for a retry is due after its backoff, not after 60 s.
C15_NotBeforeScheduledDelay ==
  \A c \in ContentIds :
    /\ Len(submitted[c]) <= 1
    /\ Len(started[c]) >= 1 =>
         Len(submitted[c]) = 1 /\ started[c][1] >= submitted[c][1] + 60000
    /\ (jobs[c].exists /\ jobs[c].state = "delayed") =>
         jobs[c].readyAt =
           IF jobs[c].attemptsMade = 0 THEN submitted[c][1] + 60000
           ELSE Last(failedAt[c]) + Backoff(jobs[c].attemptsMade)

\* C15 witness: a job submitted after time 0 was first dispatched exactly
\* 60 s after its submission and dispatched again less than 60 s after its
\* first attempt failed.
C15_Witness ==
  \E c \in ContentIds :
    /\ Len(started[c]) = 2 /\ submitted[c][1] > 0
    /\ started[c][1] = submitted[c][1] + 60000
    /\ started[c][2] < failedAt[c][1] + 60000

\* The record of content id c was created and has been deleted.
Deleted(c) == nextId > c /\ ~store[c].exists

\* C14: deleting the record does not cancel its job.  While the record is
\* deleted no step creates or modifies a record for it, a completion
\* write of its job finds no document and fails the attempt ("Content not
\* found"), and the job does not become completed unless the completion
\* write had been applied before the deletion; a job whose record is deleted before its first dispatch
\* eventually is terminally failed after three failed attempts separated by
\* the backoffs of 2 s and 4 s, the record still absent.
C14_DeletedRecordJobStillRuns ==
  /\ [][\A c \in ContentIds :
          Deleted(c) =>
            /\ store'[c] = store[c]
            /\ CompletionWriteStep(c) =>
                 wpc'[c] = "catchWrite" /\ werr'[c] = "Content not found"
            /\ (jobs[c].exists /\ jobs'[c].exists
                  /\ jobs[c].state # "completed"
                  /\ wpc[c] \notin {"publishCompleted", "return"})
                 => (jobs'[c].state # "completed"
                     /\ wpc'[c] \notin {"publishCompleted", "return"})]_vars
  /\ \A c \in ContentIds :
       (Deleted(c) /\ jobs[c].exists /\ jobs[c].attemptsMade = 0
          /\ jobs[c].state \in {"delayed", "waiting"})
         ~> (/\ Deleted(c) /\ jobs[c].exists /\ jobs[c].state = "failed"
             /\ Len(started[c]) = 3 /\ Len(failedAt[c]) = 3
             /\ backoffs[c] = <<2000, 4000>>)

\* C14 witness: the record was deleted before the first dispatch, the
\* collaborator succeeded in the third attempt, and the job is terminally
\* failed for the missing record.
C14_Witness ==
  \E c \in ContentIds :
    /\ Deleted(c) /\ JobTerminal(c) /\ jobs[c].state = "failed"
    /\ jobs[c].failedReason = "Content not found"
    /\ Len(started[c]) = 3 /\ writes[c][3] = WriteLog("failed", FALSE, NULL)

\* C16: every job in the queue that is delayed, waiting or active
\* eventually is completed or failed.
C16_EveryJobTerminates ==
  \A c \in ContentIds :
    (jobs[c].exists /\ ~JobTerminal(c)) ~> JobTerminal(c)

\* C16 witness: a job is completed in its third attempt.
C16_Witness ==
  \E c \in ContentIds :
    JobTerminal(c) /\ jobs[c].state = "completed" /\ jobs[c].attemptsMade = 3

\* The save of a rollback is applied in this step.
RollbackSaveStep == rbPc = "save" /\ rbPc' = "responded"

C18_RollbackInvalidState ==
  /\ [](/\ rbPc = "save" => rbDoc.generatedContent # NULL
        /\ (rbPc = "responded" /\ rbResp.status = 400) =>
             rbResp = RollbackInvalidState /\ rbDoc.generatedContent = NULL)
  /\ [][(rbPc = "idle" /\ rbPc' # "idle") =>
          /\ store' = store
          /\ (FindOwned(rbReq'.id, rbReq'.user) # {}
                /\ store[rbReq'.id].generatedContent = NULL) =>
               rbPc' = "responded" /\ rbResp' = RollbackInvalidState]_vars

\* C18 witness: a rollback has answered 400 for a record whose content is
\* the user's text and that has no generatedContent after a failed attempt.
C18_Witness ==
  /\ rbPc = "responded" /\ rbResp = RollbackInvalidState
  /\ store[rbReq.id].exists /\ store[rbReq.id].content = "E"
  /\ store[rbReq.id].generatedContent = NULL
  /\ store[rbReq.id].jobStatus = "failed"

\* Job c's worker applies a status write in this step.
WorkerWriteStep(c) ==
  /\ wpc[c] \in {"setProcessing", "completeWrite", "catchWrite"}
  /\ wpc'[c] # wpc[c]

C20_JobIdNeverChanges ==
  [][\A c \in ContentIds :
       (store[c].exists /\ store[c].jobId # NoJobId /\ store'[c].exists)
         => store'[c].jobId = store[c].jobId]_vars

\* C20 witness: a record carries its jobId after a user edit, a failed
\* attempt, a completion write and a rollback.
C20_Witness ==
  \E c \in ContentIds :
    /\ store[c].exists /\ store[c].jobId = JobIdOf(c)
    /\ Len(failedAt[c]) >= 1 /\ store[c].jobStatus = "completed"
    /\ rbPc = "responded" /\ rbResp.status = 200 /\ rbReq.id = c
    /\ rbDoc.content = "E"

C22_CompletionWriteIdempotent ==
  \A c \in ContentIds, g \in GenTexts :
    (store[c].exists /\ store[c].jobId = JobIdOf(c)) =>
      LET once == UpdateContentJobStatus(store, JobIdOf(c), "completed", g)
          twice == UpdateContentJobStatus(once, JobIdOf(c), "completed", g)
      IN /\ twice = once
         /\ once[c].generatedContent = g /\ once[c].jobStatus = "completed"

\* C22 witness: the worker has applied a completion write to a record
\* whose content is the user's text.
C22_Witness ==
  \E c \in ContentIds :
    /\ wpc[c] = "publishCompleted" /\ HasDoc(c)
    /\ store[c].content = "E" /\ store[c].generatedContent = wgen[c]

\* The record with id p exists and belongs to another user than u.
OwnedByOther(u, p) ==
  p \in ContentIds /\ store[p].exists /\ store[p].userId # u

\* No record has id p.
Absent(p) == p \notin ContentIds \/ ~store[p].exists

\* C25: get-by-id, update (with any body), rollback and delete by a user u
\* for an id that does not exist or whose record belongs to another user
\* answer 404 "Content not found", the same in both cases, and leave the
\* store as it is; a rollback reaches its save only for a record it read as
\* the requester's.
C25_NotOwnedIsNotFound ==
  /\ \A u \in Users, p \in ProbeIds, body \in Bodies :
       (OwnedByOther(u, p) \/ Absent(p)) =>
         /\ GetContentByIdOutcome(u, p) = [resp |-> AppErrorNotFound, store |-> store]
         /\ UpdateOutcome(u, p, Validate(body))
              = [resp |-> AppErrorNotFound, store |-> store]
         /\ DeleteOutcome(u, p) = [resp |-> AppErrorNotFound, store |-> store]
         /\ RollbackReadResp(u, p) = AppErrorNotFound
  /\ rbPc = "save" => rbDoc.exists /\ rbDoc.userId = rbReq.user
  /\ (rbPc = "responded" /\ rbResp.status = 200) => rbDoc.userId = rbReq.user

\* C25 witness: a rollback has answered 404 to a user for a record that
\* exists, belongs to another user and holds that user's text, while an id
\* without a record exists too.
C25_Witness ==
  /\ rbPc = "responded" /\ rbResp = AppErrorNotFound
  /\ OwnedByOther(rbReq.user, rbReq.id) /\ store[rbReq.id].content = "E"
  /\ \E q \in ProbeIds : Absent(q)

\* The create handler ends in this step.
CreateEndStep == crPc = "queued" /\ crPc' = "idle"

\* C26: a create makes a record with jobStatus queued, generatedContent
\* null and content null; exactly one job is submitted for it; the handler
\* answers 202 with jobId = "content-" + id and jobStatus queued (unless
\* the record was deleted before the handler's last save); and as long as
\* no attempt of its job has started the record has jobStatus queued and no
\* generatedContent.
C26_CreateQueuesOneJob ==
  /\ [](\A c \in ContentIds :
          /\ (c < nextId /\ ~(crPc = "created" /\ crId = c)) =>
               /\ Len(submitted[c]) = 1
               /\ Len(started[c]) = 0 =>
                    (jobs[c].exists /\ jobs[c].state \in {"delayed", "waiting"}
                       /\ jobs[c].id = <<"content-", c>>)
          /\ (store[c].exists /\ Len(started[c]) = 0) =>
               /\ store[c].jobStatus = "queued"
               /\ store[c].generatedContent = NULL
               /\ store[c].content \in {NULL} \cup EditTexts)
  /\ [][/\ \A c \in ContentIds :
            (~store[c].exists /\ store'[c].exists) =>
              /\ store'[c].jobStatus = "queued"
              /\ store'[c].generatedContent = NULL
              /\ store'[c].content = NULL
              /\ store'[c].userId = crUser' /\ crId' = c
              /\ Len(submitted[c]) = 0
        /\ CreateEndStep =>
             LET r == CreateResponse(crId, crUser, JobIdOf(crId),
                                     store[crId].exists)
             IN store[crId].exists =>
                  /\ r.status = 202 /\ r.jobId = <<"content-", crId>>
                  /\ r.content.jobId = r.jobId
                  /\ r.content.jobStatus = "queued"
                  /\ store'[crId].jobId = r.jobId]_vars

\* C26 witness: the handler has ended for a record that is queued, carries
\* its job id and whose job waits for its delay.
C26_Witness ==
  \E c \in ContentIds :
    /\ crPc = "idle" /\ store[c].exists /\ store[c].jobStatus = "queued"
    /\ store[c].jobId = <<"content-", c>>
    /\ jobs[c].exists /\ jobs[c].state = "delayed" /\ now < jobs[c].readyAt

\* How many completion writes job c's worker has applied to a record.
CompletedWrites(c) ==
  Cardinality({k \in DOMAIN writes[c] : writes[c][k].status = "completed"})

C29_QueueAndRecordAgree ==
  \A c \in ContentIds :
    jobs[c].exists =>
      \A d \in FindByJobId(jobs[c].id) :
        /\ jobs[c].state = "completed" =>
             /\ store[d].jobStatus = "completed"
             /\ store[d].generatedContent
                  = jobs[c].returnvalue.generatedContent
        /\ (jobs[c].state = "failed" /\ JobTerminal(c)) =>
             store[d].jobStatus = "failed"

\* C30: no status response reports the queue state completed together with
\* a record whose jobStatus is not completed, although the queue and the
\* record are read in two steps between which the worker may run.
C30_CompletedQueueMeansCompletedRecord ==
  (pollPc = "responded" /\ resp.status = 200
     /\ resp.jobStatus.state = "completed")
    => resp.content.jobStatus = "completed"

\* C30 witness: a response that reports the queue state completed.
C30_Witness ==
  /\ pollPc = "responded" /\ resp.status = 200
  /\ resp.jobStatus.state = "completed"
  /\ resp.content.jobStatus = "completed"

(* --------------------------- the worker pool --------------------------- *)
\* The queue and the one Worker of worker.ts with many jobs at once. A job
\* is its queue state only, and the jobs are a bag of such states: the
\* processor's outcome is either return or throw, and the job's id and
\* record play no part in the dispatch.
PoolJob(state, attemptsMade, readyAt) ==
  [state |-> state, attemptsMade |-> attemptsMade, readyAt |-> readyAt]

\* The jobs of the bag in one of the states.
JobsIn(states) ==
  [r \in {x \in BagToSet(pjobs) : x.state \in states} |-> pjobs[r]]

\* Number of jobs the worker is executing.
ActiveCount == BagCardinality(JobsIn({"active"}))

\* Mutant of LimiterCount: the test of the expiry is inverted.
LimiterCount_inverted == IF pnow < limExpiry THEN 0 ELSE limCount

\* The limiter's counter: the key reads as 0 once it has expired.
LimiterCount == IF pnow < limExpiry THEN limCount ELSE 0

\* pjobs with one job r replaced by q.
ReplaceJob(r, q) == (pjobs (-) SetToBag({r})) (+) SetToBag({q})

\* contentQueue.add with delay: the jobs are submitted at any time before
\* the delay of the first one has elapsed.
PoolSubmit ==
  /\ BagCardinality(pjobs) < MaxPoolJobs
  /\ pnow < jobDelay
  /\ pjobs' = pjobs (+) SetToBag({PoolJob("delayed", 0, pnow + jobDelay)})
  /\ UNCHANGED <<authVars, pnow, pticks, limCount, limExpiry, recent, gwVars, rbVars,
                 clockVars, storeVars, jobs, createVars, workerVars,
                 published, pollVars, histVars>>

\* The timers ahead: delays of jobs and the expiry of the limiter's key.
PoolTimers ==
  {r.readyAt : r \in DOMAIN JobsIn({"delayed"})}
    \cup (IF limExpiry > pnow THEN {limExpiry} ELSE {})

\* A delayed job whose delay has elapsed at time t is waiting.
Promoted(r, t) ==
  IF Ready(r, t) THEN PoolJob("waiting", r.attemptsMade, 0) ELSE r

\* The bag with every job whose delay has elapsed at time t promoted.
PromoteDue(t) ==
  LET rs == BagToSet(pjobs)
      qs == {Promoted(r, t) : r \in rs}
  IN  [q \in qs |->
         (IF q \in rs THEN pjobs[q] ELSE 0)
           + BagCardinality([r \in {x \in rs : x # q /\ Promoted(x, t) = q}
                               |-> pjobs[r]])]

\* The worker is idle: no job is running and no waiting job may be taken.
\* The processor's run takes no time on this clock, and the worker takes a
\* job as soon as the concurrency and the limiter allow.
PoolIdle ==
  /\ ActiveCount = 0
  /\ JobsIn({"waiting"}) # EmptyBag => LimiterCount >= limiterMax

\* Time passes, while the worker is idle, up to the next timer ...
PoolAdvance ==
  /\ PoolIdle
  /\ \E t \in PoolTimers :
       /\ \A u \in PoolTimers : t <= u
       /\ pnow' = t
       /\ pjobs' = PromoteDue(t)
       /\ recent' = SelectSeq(recent, LAMBDA d : d > t - limiterDuration)
  /\ UNCHANGED <<authVars, pticks, limCount, limExpiry, gwVars, rbVars,
                 clockVars, storeVars, jobs, createVars, workerVars,
                 published, pollVars, histVars>>

\* ... or, MaxTicks times, up to TickMs before the next timer.
PoolTick ==
  /\ PoolIdle
  /\ pticks < MaxTicks
  /\ \E t \in PoolTimers :
       /\ \A u \in PoolTimers : t <= u
       /\ t - TickMs > pnow
       /\ pnow' = t - TickMs
       /\ recent' = SelectSeq(recent,
                              LAMBDA d : d > t - TickMs - limiterDuration)
  /\ pticks' = pticks + 1
  /\ UNCHANGED <<authVars, pjobs, limCount, limExpiry, gwVars, rbVars,
                 clockVars, storeVars, jobs, createVars, workerVars,
                 published, pollVars, histVars>>

\* Mutant of PoolDispatch: the worker takes every waiting job.
PoolDispatch_unbounded(r) ==
  /\ BagIn(r, pjobs) /\ r.state = "waiting"
  /\ LimiterCount < limiterMax
  /\ pjobs' = ReplaceJob(r, [r EXCEPT !.state = "active"])
  /\ IF pnow < limExpiry
     THEN limCount' = limCount + 1 /\ UNCHANGED limExpiry
     ELSE limCount' = 1 /\ limExpiry' = pnow + limiterDuration
  /\ recent' = Append(recent, pnow)
  /\ UNCHANGED <<authVars, pnow, pticks, gwVars, rbVars, clockVars, storeVars, jobs,
                 createVars, workerVars, published, pollVars, histVars>>

\* The worker takes a waiting job (first attempt or retry alike) while
\* fewer than concurrency jobs are running and the limiter's counter is
\* below max; the counter is incremented, and a counter that starts at 1
\* gets the expiry of duration ms.
PoolDispatch(r) ==
  /\ BagIn(r, pjobs) /\ r.state = "waiting"
  /\ ActiveCount < concurrency
  /\ LimiterCount < limiterMax
  /\ pjobs' = ReplaceJob(r, [r EXCEPT !.state = "active"])
  /\ IF pnow < limExpiry
     THEN limCount' = limCount + 1 /\ UNCHANGED limExpiry
     ELSE limCount' = 1 /\ limExpiry' = pnow + limiterDuration
  /\ recent' = Append(recent, pnow)
  /\ UNCHANGED <<authVars, pnow, pticks, gwVars, rbVars, clockVars, storeVars, jobs,
                 createVars, workerVars, published, pollVars, histVars>>

\* The processor returns: the job is completed.
PoolReturn(r) ==
  /\ BagIn(r, pjobs) /\ r.state = "active"
  /\ pjobs' = ReplaceJob(r, PoolJob("completed", r.attemptsMade + 1, 0))
  /\ UNCHANGED <<authVars, pnow, pticks, limCount, limExpiry, recent, gwVars, rbVars,
                 clockVars, storeVars, jobs, createVars, workerVars,
                 published, pollVars, histVars>>

\* The processor throws: the job is delayed by the backoff, or failed once
\* its attempts are used up.
PoolThrow(r) ==
  /\ BagIn(r, pjobs) /\ r.state = "active"
  /\ pjobs' = ReplaceJob(r,
       IF RetryAllowed(r.attemptsMade + 1)
       THEN PoolJob("delayed", r.attemptsMade + 1,
                    pnow + Backoff(r.attemptsMade + 1))
       ELSE PoolJob("failed", r.attemptsMade + 1, 0))
  /\ UNCHANGED <<authVars, pnow, pticks, limCount, limExpiry, recent, gwVars, rbVars,
                 clockVars, storeVars, jobs, createVars, workerVars,
                 published, pollVars, histVars>>

NextPool ==
  \/ PoolSubmit
  \/ PoolAdvance
  \/ PoolTick
  \/ \E r \in BagToSet(pjobs) : PoolDispatch(r)
  \/ \E r \in BagToSet(pjobs) : PoolReturn(r)
  \/ \E r \in BagToSet(pjobs) : PoolThrow(r)

SpecPool == Init /\ [][NextPool]_vars

\* C23: at most concurrency = 5 jobs are being executed at the same time.
C23_AtMostFiveActive ==
  ActiveCount <= concurrency

\* C23 witness: five jobs are being executed and a sixth is ready and has
\* to wait although the limiter would admit it.
C23_Witness ==
  /\ ActiveCount = concurrency
  /\ LimiterCount < limiterMax
  /\ JobsIn({"waiting"}) # EmptyBag

otherAuth == <<poolVars, gwVars, rbVars, clockVars, storeVars, jobs,
               createVars, workerVars, published, pollVars, histVars>>

\* Time passes.
AuthTick ==
  /\ asec < MaxAuthSec
  /\ asec' = asec + 1
  /\ UNCHANGED <<otherAuth, spent, userToken, refPc, refTok, refNew, refLate, loPc,
                 liPc, liTok, signed, handed, loggedOut, revoked>>

\* refreshAccessToken's test of the stored token (negated in the source).
TokenMatches(stored, t) == stored # NoToken /\ stored = t

\* refreshAccessToken up to its save, for a token t that some response
\* returned: verify, findById with the refreshToken, the test, and the
\* generation of the new token.
RefreshRead(r, t) ==
  /\ refPc[r] = "idle"
  /\ refTok' = [refTok EXCEPT ![r] = t]
  /\ refLate' = [refLate EXCEPT ![r] = loggedOut /\ t \in revoked]
  /\ IF TokenMatches(userToken, t)
     THEN /\ refNew' = [refNew EXCEPT
                          ![r] = GenerateRefreshToken(AuthUser, asec)]
          /\ signed' = signed \cup {GenerateRefreshToken(AuthUser, asec)}
          /\ refPc' = [refPc EXCEPT ![r] = "save"]
     ELSE /\ refPc' = [refPc EXCEPT ![r] = "rejected"]
          /\ UNCHANGED <<refNew, signed>>
  /\ UNCHANGED <<otherAuth, spent, asec, userToken, loPc, liPc, liTok, handed,
                 loggedOut, revoked>>

\* user.refreshToken = newRefreshToken; await user.save(): the path is
\* written when the new token differs from the one that was loaded.
RefreshSave(r) ==
  /\ refPc[r] = "save"
  /\ userToken' = IF refNew[r] # refTok[r] THEN refNew[r] ELSE userToken
  /\ handed' = handed \cup {refNew[r]}
  /\ spent' = spent \cup {refTok[r]}
  /\ refPc' = [refPc EXCEPT ![r] = "ok"]
  /\ UNCHANGED <<otherAuth, asec, refTok, refNew, refLate, loPc, liPc, liTok,
                 signed, loggedOut, revoked>>

\* The response is sent.
RefreshEnd(r) ==
  /\ refPc[r] \in {"ok", "rejected"}
  /\ refPc' = [refPc EXCEPT ![r] = "idle"]
  /\ refTok' = [refTok EXCEPT ![r] = NoToken]
  /\ refNew' = [refNew EXCEPT ![r] = NoToken]
  /\ refLate' = [refLate EXCEPT ![r] = FALSE]
  /\ UNCHANGED <<otherAuth, spent, asec, userToken, loPc, liPc, liTok, signed,
                 handed, loggedOut, revoked>>

\* logoutUser: findById (the refreshToken is not selected).
LogoutRead ==
  /\ loPc = "idle"
  /\ loPc' = "save"
  /\ UNCHANGED <<otherAuth, spent, asec, userToken, refPc, refTok, refNew, refLate,
                 liPc, liTok, signed, handed, loggedOut, revoked>>

\* user.refreshToken = undefined; await user.save(): the logout succeeded.
LogoutSave ==
  /\ loPc = "save"
  /\ userToken' = NoToken
  /\ loggedOut' = TRUE /\ revoked' = signed
  /\ loPc' = "idle"
  /\ UNCHANGED <<otherAuth, spent, asec, refPc, refTok, refNew, refLate, liPc,
                 liTok, signed, handed>>

\* loginUser up to its save: findOne, comparePassword, and the generation
\* of the token.
LoginSign ==
  /\ liPc = "idle"
  /\ liTok' = GenerateRefreshToken(AuthUser, asec)
  /\ signed' = signed \cup {GenerateRefreshToken(AuthUser, asec)}
  /\ liPc' = "save"
  /\ UNCHANGED <<otherAuth, spent, asec, userToken, refPc, refTok, refNew, refLate,
                 loPc, handed, loggedOut, revoked>>

\* user.refreshToken = refreshToken; await user.save(): the login succeeded.
LoginSave ==
  /\ liPc = "save"
  /\ userToken' = liTok
  /\ handed' = handed \cup {liTok}
  /\ spent' = IF userToken # NoToken /\ userToken # liTok
              THEN spent \cup {userToken} ELSE spent
  /\ loggedOut' = FALSE /\ revoked' = {}
  /\ liPc' = "idle" /\ liTok' = NoToken
  /\ UNCHANGED <<otherAuth, asec, refPc, refTok, refNew, refLate, loPc,
                 signed>>

NextAuth ==
  \/ AuthTick
  \/ \E r \in RefreshRequests : \E t \in handed : RefreshRead(r, t)
  \/ \E r \in RefreshRequests : RefreshSave(r)
  \/ \E r \in RefreshRequests : RefreshEnd(r)
  \/ LogoutRead
  \/ LogoutSave
  \/ LoginSign
  \/ LoginSave

SpecAuth == Init /\ [][NextAuth]_vars

\* C27: after a logout succeeded and until the next login, a refresh
\* request that presents a token generated before the logout is rejected.
C27_LogoutRevokes ==
  \A r \in RefreshRequests :
    refLate[r] => refPc[r] = "rejected"

\* C31: whenever an attempt of a job starts, the record the job was
\* submitted for, unless it was deleted, carries the job's id.
C31_JobIdSavedBeforeDispatch ==
  \A c \in ContentIds :
    (jobs[c].exists /\ jobs[c].state = "active" /\ store[c].exists)
      => store[c].jobId = jobs[c].id

(* ------------------ a job submission that is rejected ------------------ *)
\* contentQueue.add rejects (Redis refuses the command): the await in
\* createContentHandler throws, nothing of the handler runs after it, and
\* the document that createContent saved stays as it is.
CreateAddJobThrows ==
  /\ crPc = "created"
  /\ crPc' = "idle" /\ crId' = 0 /\ crUser' = NULL
  /\ UNCHANGED <<poolVars, authVars, gwVars, rbVars, clockVars, storeVars,
                 jobs, workerVars, published, pollVars, histVars>>

NextWithAddThrows == Next \/ CreateAddJobThrows

SpecAddThrows == Init /\ [][NextWithAddThrows]_vars

\* C32: every record with jobStatus queued has had a job submitted for it,
\* or is the record of the create request that is about to submit one.
C32_QueuedRecordHasJob ==
  \A c \in ContentIds :
    (store[c].exists /\ store[c].jobStatus = "queued") =>
      \/ Len(submitted[c]) >= 1
      \/ crPc = "created" /\ crId = c

\* A refresh request r ends with success in this step.
RefreshOkStep(r) == refPc[r] = "save" /\ refPc'[r] = "ok"

\* C33: a refresh never succeeds with a token that an earlier refresh has
\* redeemed or that a login has replaced.
C33_RedeemedAtMostOnce ==
  [][\A r \in RefreshRequests : RefreshOkStep(r) => refTok[r] \notin spent]_vars

\* The user behind each connection. The connection handler reads no
\* credential, so the gateway does not know it.
ConnUser == [s \in Conns |-> "u2"]

\* C34: a job-update that carries a generatedContent is received only by
\* connections of the user who owns the job's record.
C34_ContentOnlyToOwner ==
  \A s \in Conns : \A k \in DOMAIN received[s] :
    (received[s][k].generatedContent # NULL
       /\ store[received[s][k].contentId].exists)
      => store[received[s][k].contentId].userId = ConnUser[s]

\* The documents a status write may meet.
StoredDocs ==
  [exists : {TRUE}, userId : Users,
   generatedContent : {NULL} \cup GenTexts,
   content : {NULL} \cup EditTexts \cup GenTexts,
   jobId : {JobIdOf(c) : c \in ContentIds},
   jobStatus : {"queued", "processing", "completed", "failed"}]

\* Job c's worker applies its processing or its failed write in this step.
StatusOnlyWriteStep(c) ==
  /\ wpc[c] \in {"setProcessing", "catchWrite"}
  /\ wpc'[c] # wpc[c]

\* C35: the processing and failed writes of updateContentJobStatus change
\* jobStatus only: on any document, and in every such write of the worker,
\* generatedContent, content and jobId (and the owner) stay as they are.
C35_StatusWritesChangeStatusOnly ==
  /\ [](\A doc \in StoredDocs, st \in {"processing", "failed"},
          e \in BOOLEAN :
          UpdateData(doc, st, NULL, e) = [doc EXCEPT !.jobStatus = st])
  /\ [][\A c \in ContentIds : StatusOnlyWriteStep(c) =>
          \A d \in ContentIds :
            /\ store'[d].exists = store[d].exists
            /\ store[d].exists =>
                 /\ store'[d].generatedContent = store[d].generatedContent
                 /\ store'[d].content = store[d].content
                 /\ store'[d].jobId = store[d].jobId
                 /\ store'[d].userId = store[d].userId]_vars

\* C35 witness: a failed write was applied to a record that holds a user
\* edit, which is still there.
C35_Witness ==
  \E c \in ContentIds :
    /\ wpc[c] = "publishFailed"
    /\ Last(writes[c]).status = "failed" /\ Last(writes[c]).matched
    /\ store[c].exists /\ store[c].jobStatus = "failed"
    /\ store[c].content = "E"

\* C36: every published message has jobId = "content-" + contentId. The
\* completed message's contentId is the _id of the document found by the
\* job's id, and a document that carries a job id carries the one made of
\* its own _id; the failed message's contentId is the job's payload, from
\* which the job's id was made.
C36_MessageJobIdOfContentId ==
  /\ \A k \in DOMAIN published :
       published[k].jobId = JobIdOf(published[k].contentId)
  /\ \A d \in ContentIds :
       (store[d].exists /\ store[d].jobId # NoJobId)
         => store[d].jobId = JobIdOf(d)
  /\ \A c \in ContentIds :
       jobs[c].exists => jobs[c].id = JobIdOf(jobs[c].data.contentId)

\* C36 witness: a failed message was published for a job whose record no
\* longer exists.
C36_Witness ==
  \E c \in ContentIds :
    /\ wpc[c] = "rethrow" /\ ~store[c].exists
    /\ Len(published) >= 1 /\ Last(published).status = "failed"
    /\ Last(published).contentId = c
    /\ Last(writes[c]).status = "failed" /\ ~Last(writes[c]).matched

\* The values of JobStatus that the code assigns.
AssignedStatuses == {"queued", "processing", "completed", "failed"}

\* C37: a record's jobStatus is queued, processing, completed or failed,
\* never pending, and a record whose jobStatus is no longer queued never
\* has jobStatus queued again.
C37_StatusValuesAndNoReturnToQueued ==
  /\ [](\A c \in ContentIds :
          store[c].exists => store[c].jobStatus \in AssignedStatuses)
  /\ [][\A c \in ContentIds :
          (store[c].exists /\ store[c].jobStatus # "queued"
             /\ store'[c].exists)
            => store'[c].jobStatus # "queued"]_vars

\* C37 witness: the record of a job in its second attempt went from failed
\* to processing; its owner has edited it and rolled it back meanwhile or
\* not.
C37_Witness ==
  \E c \in ContentIds :
    /\ store[c].exists /\ store[c].jobStatus = "processing"
    /\ Len(started[c]) = 2 /\ wpc[c] = "generate"
    /\ Len(writes[c]) = 1 /\ writes[c][1].status = "failed"
    /\ writes[c][1].matched

(* ------------------- a foreign text on the channel -------------------- *)
\* Another client of the Redis server publishes a text that is not JSON on
\* job-updates.
PublishMalformed ==
  /\ Cardinality({k \in DOMAIN published : ~ParseOk(published[k])})
       < MaxMalformed
  /\ published' = Append(published, Malformed)
  /\ UNCHANGED <<poolVars, authVars, gwVars, rbVars, clockVars, storeVars,
                 jobs, createVars, workerVars, pollVars, histVars>>

\* The create request, the queue and the worker, the gateway and its
\* clients, and the foreign publisher.
NextWithMalformed ==
  \/ \E u \in Users : CreateContent(u)
  \/ CreateAddJob
  \/ CreateSaveJobId
  \/ AdvanceToTimer
  \/ \E c \in ContentIds : JobStep(c)
  \/ NextGateway
  \/ PublishMalformed

SpecMalformed == Init /\ [][NextWithMalformed]_vars

\* C38: the gateway handles the messages one by one whatever they are: a
\* message that cannot be parsed is delivered to nobody, and a well-formed
\* message, also one that follows a malformed one, is delivered to the
\* members of its job's room.
C38_MalformedDroppedGatewayGoesOn ==
  [][gwHandled' # gwHandled =>
       /\ gwHandled' = gwHandled + 1
       /\ IF ParseOk(published[gwHandled + 1])
          THEN \A s \in Conns :
                 received'[s] =
                   IF connected[s]
                      /\ RoomOf(published[gwHandled + 1].jobId) \in rooms[s]
                   THEN Append(received[s], published[gwHandled + 1])
                   ELSE received[s]
          ELSE received' = received]_vars

\* C38 witness: the gateway has dropped a malformed text and then delivered
\* the job's message that followed it to a subscribed connection.
C38_Witness ==
  \E s \in Conns :
    /\ gwHandled = 2 /\ ~ParseOk(published[1]) /\ ParseOk(published[2])
    /\ deliveredIdx[s] = <<2>> /\ received[s] = <<published[2]>>

====
